---- MODULE Spec2Model ----
(***************************************************************************)
(* ReadToCtrlZ<R> (src/lib.rs): a reader that wraps an inner Read/BufRead  *)
(* source and treats the byte 0x1A as end of file.                         *)
(*                                                                         *)
(* Spec      one wrapper driven by arbitrary read / fill_buf / consume     *)
(*           calls over an inner source that may respect its contract,     *)
(*           report an error, or report more bytes than the buffer holds.  *)
(* SpecCareful  Spec with consume only after a fill_buf, within its view.   *)
(* SpecGrow  Spec over an inner source that bytes keep arriving at.        *)
(* SpecLoops two wrappers over the same inner data: one driven by a loop   *)
(*           of read calls, the other by a fill_buf / consume loop.        *)
(* SpecLoopsFair  SpecLoops with the loops going on running.               *)
(***************************************************************************)
EXTENDS Integers, Sequences, FiniteSets

\* ---- bounds ----
MaxLen == 3        \* longest inner stream
MaxBuf == 2        \* longest caller buffer handed to read
MaxStream == 4     \* longest inner stream read by the loops of SpecLoops
MaxExtra == 2      \* calls a loop goes on making after its first empty result

\* ---- constants of the program ----
CtrlZ == 26        \* b'\x1a'

Bytes == {CtrlZ, 97, 98}

Min(a, b) == IF a < b THEN a ELSE b

Max(a, b) == IF a > b THEN a ELSE b

SeqsOfLen(n) == [1..n -> Bytes]

SeqsUpTo(n) == UNION {SeqsOfLen(k) : k \in 0..n}

\* the buffers a caller hands to read: any length up to MaxBuf, filled with one byte
\* value. read looks at a position of the buffer only after the inner source has
\* answered, so what matters of the old content is whether a 0x1A is left where the
\* inner source did not write; a buffer full of 0x1A has one at every such position.
CallerBufs == {[i \in 1..L |-> f] : L \in 0..MaxBuf, f \in Bytes}

\* std::io::Error values: the one the wrapper constructs and those of the inner source
NoError == [kind |-> "", msg |-> ""]

InvalidInnerSource == [kind |-> "Other", msg |-> "buffer smaller than amount of bytes read"]

InnerErrors == {[kind |-> "Interrupted", msg |-> "interrupted"],
                [kind |-> "Other", msg |-> "device failure"]}

VARIABLES
    data,           \* the bytes of the inner source, in stream order
    pos,            \* inner: number of bytes of data consumed so far
    cap,            \* inner: end of the inner source's internal buffer (pos <= cap)
    terminated,     \* ReadToCtrlZ.terminated
    op,             \* last call made on the wrapper
    arg,            \* its argument: buf.len() for read, amount for consume
    buf,            \* read: the caller's buffer after the call
    inner,          \* what the inner source answered during the last call
    result,         \* what the last call returned
    wasTerminated,  \* terminated as it was when the last call began
    rd,             \* SpecLoops: the wrapper driven by the read loop
    br              \* SpecLoops: the wrapper driven by the fill_buf / consume loop

vars == <<data, pos, cap, terminated, op, arg, buf, inner, result, wasTerminated, rd, br>>

\* ---- results ----

\* what the inner source answers to a call, and the state it is left in
NotCalled == [kind |-> "none", n |-> 0, buf |-> <<>>, err |-> NoError, pos |-> 0, cap |-> 0]

InnerOk(n, b, p, c) == [kind |-> "ok", n |-> n, buf |-> b, err |-> NoError, pos |-> p, cap |-> c]

InnerErr(e, p, c) == [kind |-> "err", n |-> 0, buf |-> <<>>, err |-> e, pos |-> p, cap |-> c]

\* io::Result of read (n, and the first n bytes of the buffer) and of fill_buf (the view)
Ok(bytes) == [ok |-> TRUE, n |-> Len(bytes), bytes |-> bytes, err |-> NoError]

Err(e) == [ok |-> FALSE, n |-> 0, bytes |-> <<>>, err |-> e]

\* ---- the inner source ----

\* counts a contract-respecting inner read may report for a buffer of length L
\* when rem bytes remain: 0 only at end of stream or for an empty buffer
GoodCounts(L, rem) == IF L = 0 \/ rem = 0 THEN {0} ELSE 1..Min(L, rem)

\* the caller's buffer b0 after the inner source wrote n bytes of d from offset p
Filled(d, p, n, b0) == SubSeq(d, p + 1, p + n) \o SubSeq(b0, n + 1, Len(b0))

\* self.inner.read(buf), honouring the contract of Read
InnerReadOk(d, p, c, b0) ==
    {InnerOk(n, Filled(d, p, n, b0), p + n, Max(c, p + n)) : n \in GoodCounts(Len(b0), Len(d) - p)}

\* self.inner.read(buf) reporting an error
InnerReadErr(p, c) == {InnerErr(e, p, c) : e \in InnerErrors}

\* self.inner.read(buf) reporting more bytes than buf holds: it wrote nothing
\* (tests::BadReader) or as much of the stream as buf takes
InnerReadBad(d, p, c, b0) ==
    {InnerOk(n, Filled(d, p, k, b0), p + k, Max(c, p + k)) :
        n \in (Len(b0) + 1)..(MaxBuf + 1), k \in {0, Min(Len(b0), Len(d) - p)}}

\* self.inner.fill_buf(): the inner buffer is refilled only when it is empty
InnerFillBufOk(d, p, c) ==
    {InnerOk(e - p, SubSeq(d, p + 1, e), p, e) :
        e \in (IF p < c THEN {c} ELSE IF p = Len(d) THEN {p} ELSE (p + 1)..Len(d))}

\* self.inner.fill_buf() reporting an error
InnerFillBufErr(p, c) == {InnerErr(e, p, c) : e \in InnerErrors}

\* ---- ReadToCtrlZ ----

\* new that starts out terminated
new_terminated == [terminated |-> TRUE]

\* ReadToCtrlZ::new(inner)
new == [terminated |-> FALSE]

\* read_scan returning the count up to and including the 0x1A
RECURSIVE read_scan_inclusive(_, _, _)
read_scan_inclusive(b, n, i) ==
    IF i >= n THEN [res |-> Ok(SubSeq(b, 1, n)), hit |-> FALSE]
    ELSE IF i >= Len(b) THEN [res |-> Err(InvalidInnerSource), hit |-> FALSE]
    ELSE IF b[i + 1] = CtrlZ THEN [res |-> Ok(SubSeq(b, 1, i + 1)), hit |-> TRUE]
    ELSE read_scan_inclusive(b, n, i + 1)

\* read_scan going over the whole buffer instead of its first n bytes
RECURSIVE read_scan_whole(_, _, _)
read_scan_whole(b, n, i) ==
    IF i >= Len(b) THEN [res |-> Ok(SubSeq(b, 1, n)), hit |-> FALSE]
    ELSE IF b[i + 1] = CtrlZ THEN [res |-> Ok(SubSeq(b, 1, i)), hit |-> TRUE]
    ELSE read_scan_whole(b, n, i + 1)

\* read_scan taking a position outside the buffer for a byte that is not 0x1A
RECURSIVE read_scan_unbounded(_, _, _)
read_scan_unbounded(b, n, i) ==
    IF i >= n THEN [res |-> Ok([j \in 1..n |-> IF j <= Len(b) THEN b[j] ELSE 0]), hit |-> FALSE]
    ELSE IF i < Len(b) /\ b[i + 1] = CtrlZ THEN [res |-> Ok(SubSeq(b, 1, i)), hit |-> TRUE]
    ELSE read_scan_unbounded(b, n, i + 1)

\* the loop of read: for i in 0..n { if *buf.get(i).ok_or_else(..)? == b'\x1a' {..} } Ok(n)
RECURSIVE read_scan(_, _, _)
read_scan(b, n, i) ==
    IF i >= n THEN [res |-> Ok(SubSeq(b, 1, n)), hit |-> FALSE]
    ELSE IF i >= Len(b) THEN [res |-> Err(InvalidInnerSource), hit |-> FALSE]
    ELSE IF b[i + 1] = CtrlZ THEN [res |-> Ok(SubSeq(b, 1, i)), hit |-> TRUE]
    ELSE read_scan(b, n, i + 1)

\* read that sets terminated without returning early: later reads reach the inner source
read_unchecked(t, in) ==
    IF in.kind = "err" THEN [res |-> Err(in.err), terminated |-> t, called |-> TRUE]
    ELSE LET s == read_scan(in.buf, in.n, 0)
         IN [res |-> s.res, terminated |-> (IF s.hit THEN TRUE ELSE t), called |-> TRUE]

\* read that takes an end of the inner stream for the end marker
read_latch_eof(t, in) ==
    IF t THEN [res |-> Ok(<<>>), terminated |-> t, called |-> FALSE]
    ELSE IF in.kind = "err" THEN [res |-> Err(in.err), terminated |-> t, called |-> TRUE]
    ELSE LET s == read_scan(in.buf, in.n, 0)
         IN [res |-> s.res, terminated |-> (IF s.hit \/ in.n = 0 THEN TRUE ELSE t), called |-> TRUE]

\* read that gives up for good once the inner source has failed
read_poisoned(t, in) ==
    IF t THEN [res |-> Ok(<<>>), terminated |-> t, called |-> FALSE]
    ELSE IF in.kind = "err" THEN [res |-> Err(in.err), terminated |-> TRUE, called |-> TRUE]
    ELSE LET s == read_scan(in.buf, in.n, 0)
         IN [res |-> s.res, terminated |-> (IF s.hit THEN TRUE ELSE t), called |-> TRUE]

\* <ReadToCtrlZ as Read>::read; in is what the inner source answers if it is asked
read(t, in) ==
    IF t THEN [res |-> Ok(<<>>), terminated |-> t, called |-> FALSE]
    ELSE IF in.kind = "err" THEN [res |-> Err(in.err), terminated |-> t, called |-> TRUE]
    ELSE LET s == read_scan(in.buf, in.n, 0)
         IN [res |-> s.res, terminated |-> (IF s.hit THEN TRUE ELSE t), called |-> TRUE]

\* fill_buf_scan returning the view up to and including the 0x1A
RECURSIVE fill_buf_scan_inclusive(_, _)
fill_buf_scan_inclusive(b, i) ==
    IF i >= Len(b) THEN [res |-> Ok(b), hit |-> FALSE]
    ELSE IF b[i + 1] = CtrlZ THEN [res |-> Ok(SubSeq(b, 1, i + 1)), hit |-> (i = 0)]
    ELSE fill_buf_scan_inclusive(b, i + 1)

\* fill_buf_scan without the i == 0 case
RECURSIVE fill_buf_scan_no_flag(_, _)
fill_buf_scan_no_flag(b, i) ==
    IF i >= Len(b) THEN [res |-> Ok(b), hit |-> FALSE]
    ELSE IF b[i + 1] = CtrlZ THEN [res |-> Ok(SubSeq(b, 1, i)), hit |-> FALSE]
    ELSE fill_buf_scan_no_flag(b, i + 1)

\* fill_buf_scan setting terminated wherever the 0x1A is found
RECURSIVE fill_buf_scan_eager(_, _)
fill_buf_scan_eager(b, i) ==
    IF i >= Len(b) THEN [res |-> Ok(b), hit |-> FALSE]
    ELSE IF b[i + 1] = CtrlZ THEN [res |-> Ok(SubSeq(b, 1, i)), hit |-> TRUE]
    ELSE fill_buf_scan_eager(b, i + 1)

\* the loop of fill_buf: for i in 0..buf.len() { if buf[i] == b'\x1a' {..} } Ok(buf)
RECURSIVE fill_buf_scan(_, _)
fill_buf_scan(b, i) ==
    IF i >= Len(b) THEN [res |-> Ok(b), hit |-> FALSE]
    ELSE IF b[i + 1] = CtrlZ THEN [res |-> Ok(SubSeq(b, 1, i)), hit |-> (i = 0)]
    ELSE fill_buf_scan(b, i + 1)

\* <ReadToCtrlZ as BufRead>::fill_buf; in is what the inner source answers if it is asked
fill_buf(t, in) ==
    IF t THEN [res |-> Ok(<<>>), terminated |-> t, called |-> FALSE]
    ELSE IF in.kind = "err" THEN [res |-> Err(in.err), terminated |-> t, called |-> TRUE]
    ELSE LET s == fill_buf_scan(in.buf, 0)
         IN [res |-> s.res, terminated |-> (IF s.hit THEN TRUE ELSE t), called |-> TRUE]

\* consume that re-arms the reader
consume_rearm(t, amount) == [amount |-> amount, terminated |-> FALSE]

\* consume that does nothing once terminated is set
consume_skip(t, amount) == [amount |-> (IF t THEN 0 ELSE amount), terminated |-> t]

\* <ReadToCtrlZ as BufRead>::consume: the amount handed to inner.consume, and the flag after
consume(t, amount) == [amount |-> amount, terminated |-> t]

\* ---- state ----

LoopInit == [pos |-> 0, cap |-> 0, terminated |-> new.terminated, out |-> <<>>,
             view |-> <<>>, pc |-> "call", done |-> FALSE, extra |-> 0]

InitCall ==
    /\ pos = 0
    /\ cap = 0
    /\ terminated = new.terminated
    /\ op = "new"
    /\ arg = 0
    /\ buf = <<>>
    /\ inner = NotCalled
    /\ result = Ok(<<>>)
    /\ wasTerminated = FALSE
    /\ rd = LoopInit
    /\ br = LoopInit

Init == data \in SeqsUpTo(MaxLen) /\ InitCall

InitLoops == data \in SeqsUpTo(MaxStream) /\ InitCall

\* ---- Spec: any sequence of calls on one wrapper ----

\* a call of read with the caller's buffer b0, the inner source answering in
Read(b0, in) ==
    \E r \in {read(terminated, in)} :
       /\ op' = "read"
       /\ arg' = Len(b0)
       /\ buf' = IF r.called /\ in.kind = "ok" THEN in.buf ELSE b0
       /\ inner' = IF r.called THEN in ELSE NotCalled
       /\ result' = r.res
       /\ wasTerminated' = terminated
       /\ terminated' = r.terminated
       /\ pos' = IF r.called THEN in.pos ELSE pos
       /\ cap' = IF r.called THEN in.cap ELSE cap
       /\ UNCHANGED <<data, rd, br>>

\* a call of fill_buf, the inner source answering in
FillBuf(in) ==
    \E r \in {fill_buf(terminated, in)} :
       /\ op' = "fill_buf"
       /\ arg' = 0
       /\ buf' = <<>>
       /\ inner' = IF r.called THEN in ELSE NotCalled
       /\ result' = r.res
       /\ wasTerminated' = terminated
       /\ terminated' = r.terminated
       /\ pos' = IF r.called THEN in.pos ELSE pos
       /\ cap' = IF r.called THEN in.cap ELSE cap
       /\ UNCHANGED <<data, rd, br>>

\* a call of consume(amount); the inner source accepts amounts up to its buffer's length
Consume(amount) ==
    \E r \in {consume(terminated, amount)} :
       /\ pos + r.amount <= cap
       /\ op' = "consume"
       /\ arg' = amount
       /\ buf' = <<>>
       /\ inner' = InnerOk(r.amount, <<>>, pos + r.amount, cap)
       /\ result' = Ok(<<>>)
       /\ wasTerminated' = terminated
       /\ terminated' = r.terminated
       /\ pos' = pos + r.amount
       /\ UNCHANGED <<cap, data, rd, br>>

ReadInnerOk == \E b0 \in CallerBufs : \E in \in InnerReadOk(data, pos, cap, b0) : Read(b0, in)

ReadInnerErr == ~terminated /\ \E b0 \in CallerBufs : \E in \in InnerReadErr(pos, cap) : Read(b0, in)

ReadInnerBad == ~terminated /\ \E b0 \in CallerBufs : \E in \in InnerReadBad(data, pos, cap, b0) : Read(b0, in)

FillBufInnerOk == \E in \in InnerFillBufOk(data, pos, cap) : FillBuf(in)

FillBufInnerErr == ~terminated /\ \E in \in InnerFillBufErr(pos, cap) : FillBuf(in)

ConsumeAny == \E amount \in 0..MaxLen : Consume(amount)

Next ==
    \/ ReadInnerOk
    \/ ReadInnerErr
    \/ ReadInnerBad
    \/ FillBufInnerOk
    \/ FillBufInnerErr
    \/ ConsumeAny

Spec == Init /\ [][Next]_vars

\* ---- SpecCareful: as Spec, but consume only follows a fill_buf and stays within its view ----

ConsumeWithinView ==
    /\ op = "fill_buf"
    /\ result.ok
    /\ \E amount \in 0..result.n : Consume(amount)

NextCareful ==
    \/ ReadInnerOk
    \/ ReadInnerErr
    \/ ReadInnerBad
    \/ FillBufInnerOk
    \/ FillBufInnerErr
    \/ ConsumeWithinView

SpecCareful == Init /\ [][NextCareful]_vars

\* ---- SpecGrow: as Spec, over an inner source that bytes keep arriving at ----

\* the inner source gets one more byte (a pipe, a file that is being written)
InnerGrows ==
    /\ Len(data) < MaxLen
    /\ \E b \in Bytes : data' = Append(data, b)
    /\ UNCHANGED <<pos, cap, terminated, op, arg, buf, inner, result, wasTerminated, rd, br>>

NextGrow ==
    \/ ReadInnerOk
    \/ ReadInnerErr
    \/ ReadInnerBad
    \/ FillBufInnerOk
    \/ FillBufInnerErr
    \/ ConsumeAny
    \/ InnerGrows

SpecGrow == Init /\ [][NextGrow]_vars

\* ---- SpecLoops: a read loop and a fill_buf / consume loop over the same data ----

Going(w) == ~w.done \/ w.extra < MaxExtra

\* one iteration of: loop { n = reader.read(&mut buf)?; out.extend(&buf[..n]) }
LoopRead ==
    /\ Going(rd)
    /\ \E b0 \in CallerBufs : \E in \in InnerReadOk(data, rd.pos, rd.cap, b0) :
         \E r \in {read(rd.terminated, in)} :
            /\ Len(b0) >= 1
            /\ rd' = [rd EXCEPT !.terminated = r.terminated,
                                !.pos = IF r.called THEN in.pos ELSE @,
                                !.cap = IF r.called THEN in.cap ELSE @,
                                !.out = @ \o r.res.bytes,
                                !.done = @ \/ r.res.n = 0,
                                !.extra = IF rd.done THEN @ + 1 ELSE @]
    /\ UNCHANGED <<data, pos, cap, terminated, op, arg, buf, inner, result, wasTerminated, br>>

\* first half of an iteration of: loop { view = reader.fill_buf()?; out.extend(view); reader.consume(view.len()) }
LoopFillBuf ==
    /\ Going(br)
    /\ br.pc = "call"
    /\ \E in \in InnerFillBufOk(data, br.pos, br.cap) :
         \E r \in {fill_buf(br.terminated, in)} :
            br' = [br EXCEPT !.terminated = r.terminated,
                             !.pos = IF r.called THEN in.pos ELSE @,
                             !.cap = IF r.called THEN in.cap ELSE @,
                             !.view = r.res.bytes,
                             !.out = @ \o r.res.bytes,
                             !.pc = IF r.res.n = 0 THEN "call" ELSE "consume",
                             !.done = @ \/ r.res.n = 0,
                             !.extra = IF br.done THEN @ + 1 ELSE @]
    /\ UNCHANGED <<data, pos, cap, terminated, op, arg, buf, inner, result, wasTerminated, rd>>

\* second half: consume exactly the length of the view just returned
LoopConsume ==
    /\ br.pc = "consume"
    /\ LET r == consume(br.terminated, Len(br.view))
       IN br' = [br EXCEPT !.terminated = r.terminated,
                           !.pos = @ + r.amount,
                           !.view = <<>>,
                           !.pc = "call"]
    /\ UNCHANGED <<data, pos, cap, terminated, op, arg, buf, inner, result, wasTerminated, rd>>

NextLoops ==
    \/ LoopRead
    \/ LoopFillBuf
    \/ LoopConsume

SpecLoops == InitLoops /\ [][NextLoops]_vars

\* the loops are sequential programs that go on running: no iteration waits for ever
SpecLoopsFair ==
    /\ SpecLoops
    /\ WF_vars(LoopRead)
    /\ WF_vars(LoopFillBuf)
    /\ WF_vars(LoopConsume)

\* ---- helpers of the properties ----

HasCtrlZ(s) == \E i \in 1..Len(s) : s[i] = CtrlZ

\* index (1-based) of the first 0x1A of s, Len(s) + 1 when there is none
FirstCtrlZ(s) == IF HasCtrlZ(s) THEN CHOOSE i \in 1..Len(s) : s[i] = CtrlZ /\ \A j \in 1..(i - 1) : s[j] # CtrlZ
                 ELSE Len(s) + 1

\* the bytes of s before its first 0x1A
BeforeCtrlZ(s) == SubSeq(s, 1, FirstCtrlZ(s) - 1)

IsPrefix(s, t) == Len(s) <= Len(t) /\ SubSeq(t, 1, Len(s)) = s

\* ---- properties ----

\* C1: over a stream A ++ [0x1A] ++ B, whatever the chunks and the buffer lengths L >= 1,
\* the bytes a read loop has collected are always a prefix of A, they are exactly A
\* once a read has returned 0, and no later read adds a byte to them.
C1_ReadLoopStopsAtCtrlZ ==
    HasCtrlZ(data) =>
        /\ IsPrefix(rd.out, BeforeCtrlZ(data))
        /\ rd.done => rd.out = BeforeCtrlZ(data)

C1_Witness ==
    /\ HasCtrlZ(data)
    /\ FirstCtrlZ(data) < Len(data)
    /\ Len(rd.out) >= 2
    /\ rd.pos < Len(data)
    /\ rd.done
    /\ rd.extra = MaxExtra

\* C2: a read or fill_buf that begins with terminated set returns Ok(0) / an empty
\* view, does not call the inner source, leaves the inner source's state as it was
\* and leaves terminated set.
C2_TerminatedCallsReturnEmpty ==
    [][(terminated /\ op' \in {"read", "fill_buf"}) =>
          /\ result' = Ok(<<>>)
          /\ inner' = NotCalled
          /\ pos' = pos /\ cap' = cap
          /\ terminated']_vars

C2_Witness ==
    /\ wasTerminated
    /\ op = "fill_buf"
    /\ result = Ok(<<>>)
    /\ pos < Len(data)
    /\ data[pos + 1] # CtrlZ

\* C3: the bytes a successful read hands back (the first k bytes of the caller's
\* buffer for Ok(k)) and every view a successful fill_buf returns contain no 0x1A.
C3_CtrlZNeverReturned ==
    (op \in {"read", "fill_buf"} /\ result.ok) =>
        /\ ~HasCtrlZ(result.bytes)
        /\ op = "read" => result.n <= Len(buf) /\ result.bytes = SubSeq(buf, 1, result.n)

C3_Witness ==
    /\ op = "read"
    /\ result.ok
    /\ result.n >= 1
    /\ result.n < inner.n
    /\ buf[result.n + 1] = CtrlZ

\* C4: terminated is false after new, and no call (read, fill_buf, consume, failing
\* or not) takes it from true back to false.
C4_TerminatedIsMonotone ==
    /\ ~terminated
    /\ [][terminated => terminated']_vars

C4_Witness ==
    /\ wasTerminated
    /\ terminated
    /\ op = "consume"
    /\ arg >= 1

\* C5: a read during which the inner source reports a count n greater than the
\* buffer's length L fails with the InvalidInnerSource error, whatever the buffer holds.
C5_OverReportAlwaysFails ==
    (op = "read" /\ inner.kind = "ok" /\ inner.n > arg) =>
        /\ ~result.ok
        /\ result.err = InvalidInnerSource

\* C6: over a stream S without 0x1A, the bytes collected by the read loop and by the
\* fill_buf / consume loop are always a prefix of S; once a loop has seen 0 / an
\* empty view they are exactly S and terminated is still false.
C6_PassThroughWithoutCtrlZ ==
    ~HasCtrlZ(data) =>
        /\ IsPrefix(rd.out, data)
        /\ IsPrefix(br.out, data)
        /\ rd.done => (rd.out = data /\ ~rd.terminated)
        /\ br.done => (br.out = data /\ ~br.terminated)

C6_Witness ==
    /\ ~HasCtrlZ(data)
    /\ Len(data) >= 3
    /\ rd.done /\ rd.extra >= 1 /\ rd.out = data
    /\ br.done /\ br.extra >= 1 /\ br.out = data

\* C7: over the same data, once both loops have ended (read returned 0, fill_buf
\* returned an empty view), the fill_buf / consume loop has collected the same bytes
\* as the read loop.
C7_LoopsAgree == (rd.done /\ br.done) => br.out = rd.out

C7_Witness ==
    /\ rd.done
    /\ br.done
    /\ HasCtrlZ(data)
    /\ FirstCtrlZ(data) >= 3
    /\ FirstCtrlZ(data) < Len(data)
    /\ Len(br.out) >= 2

\* the inner stream's next unconsumed byte is 0x1A
NextIsCtrlZ == pos < Len(data) /\ data[pos + 1] = CtrlZ

\* C8 as stated: when the next unconsumed byte is 0x1A, a read or fill_buf that the
\* inner source serves (no error, no over-report) returns empty and sets terminated
\* in that call.
C8_LeadingCtrlZTerminates ==
    [][(/\ NextIsCtrlZ
        /\ op' \in {"read", "fill_buf"}
        /\ inner'.kind # "err"
        /\ op' = "read" => inner'.n <= arg')
       => (result' = Ok(<<>>) /\ terminated')]_vars

\* C8 (amended): when the next unconsumed byte is 0x1A, a fill_buf, or a read with a
\* buffer of length L >= 1, that the inner source serves returns empty and sets
\* terminated in that call; every read or fill_buf after it returns empty too.
C8_LeadingCtrlZTerminatesNonEmptyBuf ==
    /\ [][(/\ NextIsCtrlZ
           /\ op' \in {"read", "fill_buf"}
           /\ inner'.kind # "err"
           /\ op' = "read" => (inner'.n <= arg' /\ arg' >= 1))
          => (result' = Ok(<<>>) /\ terminated')]_vars
    /\ [][(terminated /\ op' \in {"read", "fill_buf"}) => (result' = Ok(<<>>) /\ terminated')]_vars

C8_Witness ==
    /\ op = "fill_buf"
    /\ ~wasTerminated
    /\ terminated
    /\ result = Ok(<<>>)
    /\ inner.n >= 2
    /\ inner.buf[1] = CtrlZ
    /\ inner.buf[2] # CtrlZ

\* C9: a read or fill_buf that returns an error leaves terminated as it was; the
\* error is the inner source's own when it reported one and InvalidInnerSource
\* otherwise; and every read or fill_buf begun with terminated false asks the inner
\* source.
C9_ErrorsLeaveTerminated ==
    /\ [][(op' \in {"read", "fill_buf"} /\ ~result'.ok) =>
             /\ terminated' = terminated
             /\ result'.err = (IF inner'.kind = "err" THEN inner'.err ELSE InvalidInnerSource)]_vars
    /\ [][(op' \in {"read", "fill_buf"} /\ inner'.kind = "err") => result' = Err(inner'.err)]_vars
    /\ [][(op' \in {"read", "fill_buf"} /\ ~terminated) => inner'.kind # "none"]_vars

C9_Witness ==
    /\ op = "read"
    /\ ~result.ok
    /\ inner.kind = "err"
    /\ result.err.kind = "Other"
    /\ ~terminated
    /\ pos >= 1

\* C10: terminated goes from false to true only in a read whose inner source reported
\* n <= L bytes with a 0x1A among the first n of the buffer, or in a fill_buf whose
\* inner buffer starts with 0x1A.
C10_OnlyTwoWaysToTerminate ==
    (terminated /\ ~wasTerminated) =>
        \/ /\ op = "read"
           /\ inner.kind = "ok"
           /\ inner.n <= arg
           /\ HasCtrlZ(SubSeq(buf, 1, inner.n))
        \/ /\ op = "fill_buf"
           /\ inner.kind = "ok"
           /\ inner.n >= 1
           /\ inner.buf[1] = CtrlZ

\* C11: a fill_buf begun with terminated false and served by the inner source returns
\* the inner buffer up to its first 0x1A (all of it when it holds none) and does not
\* move the inner cursor; unless the inner buffer starts with 0x1A it leaves
\* terminated false, and a fill_buf that follows it directly returns the same view.
C11_FillBufReturnsPrefix ==
    /\ [][(~terminated /\ op' = "fill_buf" /\ inner'.kind = "ok") =>
             /\ inner'.buf = SubSeq(data, pos + 1, pos + inner'.n)
             /\ result' = Ok(BeforeCtrlZ(inner'.buf))
             /\ pos' = pos
             /\ terminated' = (inner'.n >= 1 /\ inner'.buf[1] = CtrlZ)]_vars
    /\ [][(/\ op = "fill_buf" /\ result.ok /\ ~terminated
           /\ op' = "fill_buf" /\ result'.ok) => result' = result]_vars

C11_Witness ==
    /\ op = "fill_buf"
    /\ ~terminated
    /\ result.ok
    /\ result.n >= 1
    /\ result.n < inner.n
    /\ inner.buf[result.n + 1] = CtrlZ

\* C12: a read begun with terminated false whose inner source reported n <= L bytes
\* returns the first n bytes of the buffer up to their first 0x1A and sets terminated
\* exactly when one of those n bytes is 0x1A; what the buffer holds from position n
\* on has no part in it.
C12_ReadReturnsPrefix ==
    (op = "read" /\ ~wasTerminated /\ inner.kind = "ok" /\ inner.n <= arg) =>
        /\ result = Ok(BeforeCtrlZ(SubSeq(buf, 1, inner.n)))
        /\ terminated = HasCtrlZ(SubSeq(buf, 1, inner.n))

C12_Witness ==
    /\ op = "read"
    /\ ~wasTerminated
    /\ inner.kind = "ok"
    /\ inner.n >= 1
    /\ inner.n < arg
    /\ buf[inner.n + 1] = CtrlZ
    /\ result.n = inner.n
    /\ ~terminated

\* C13: consume(amount) hands the same amount to the inner source whether terminated
\* is set or not, the inner cursor moves by that amount, and terminated is unchanged.
C13_ConsumeForwards ==
    [][op' = "consume" =>
          /\ inner'.kind = "ok"
          /\ inner'.n = arg'
          /\ pos' = pos + arg'
          /\ cap' = cap
          /\ terminated' = terminated]_vars

C13_Witness ==
    /\ op = "consume"
    /\ ~terminated
    /\ arg >= 2
    /\ pos = arg
    /\ data[pos] = CtrlZ

\* C14: after new the wrapper is active and the inner source has not been asked for
\* anything; the first read or fill_buf that the inner source serves gets the stream
\* from its first byte.
C14_NewIsActive ==
    /\ ~terminated /\ pos = 0 /\ cap = 0 /\ inner = NotCalled
    /\ [][(op = "new" /\ op' = "fill_buf" /\ inner'.kind = "ok") =>
             result' = Ok(BeforeCtrlZ(SubSeq(data, 1, inner'.n)))]_vars
    /\ [][(op = "new" /\ op' = "read" /\ inner'.kind = "ok" /\ inner'.n <= arg') =>
             result' = Ok(BeforeCtrlZ(SubSeq(data, 1, inner'.n)))]_vars

C14_Witness ==
    /\ op = "read"
    /\ ~wasTerminated
    /\ result.ok
    /\ result.n >= 2
    /\ pos = result.n
    /\ cap = pos

\* the number of bytes of the inner stream among those the call of this step returns:
\* all of a view; of a read, no more than the inner source took from the stream
Exposed == IF op' = "read" THEN Min(result'.n, pos' - pos) ELSE result'.n

\* C15: when every consume directly follows a fill_buf and is within its view, the
\* stream bytes a read or fill_buf returns are those at the inner cursor and all of
\* them lie before the stream's first 0x1A.
C15_NothingPastCtrlZ ==
    [][(op' \in {"read", "fill_buf"} /\ result'.ok /\ Exposed >= 1) =>
          /\ pos + Exposed < FirstCtrlZ(data)
          /\ SubSeq(result'.bytes, 1, Exposed) = SubSeq(data, pos + 1, pos + Exposed)]_vars

C15_Witness ==
    /\ op = "read"
    /\ wasTerminated
    /\ result = Ok(<<>>)
    /\ arg >= 1
    /\ cap > pos
    /\ pos >= FirstCtrlZ(data)
    /\ data[pos + 1] # CtrlZ

\* C16: a read that returns Ok(k) has k <= L, also when the inner source reported
\* n > L; a scan that gets to position L without having met a 0x1A ends in the
\* InvalidInnerSource error.
C16_ReadStaysInBounds ==
    /\ (op = "read" /\ result.ok) => result.n <= arg
    /\ (op = "read" /\ inner.kind = "ok" /\ inner.n > arg /\ ~HasCtrlZ(buf)) =>
           result = Err(InvalidInnerSource)

C16_Witness ==
    /\ op = "read"
    /\ arg >= 1
    /\ inner.kind = "ok"
    /\ inner.n > arg
    /\ pos >= 1
    /\ result = Err(InvalidInnerSource)

\* the last call was a read or fill_buf, begun with terminated false, to which the
\* inner source answered 0 bytes / an empty buffer
InnerGaveNothing ==
    /\ op \in {"read", "fill_buf"}
    /\ ~wasTerminated
    /\ inner.kind = "ok"
    /\ inner.n = 0

\* C17: a read or fill_buf, begun with terminated false, to which the inner source
\* answers 0 bytes / an empty buffer returns 0 / empty and leaves terminated false;
\* the read or fill_buf after it asks the inner source again and returns what the
\* inner source then yields, up to its first 0x1A.
C17_EndOfStreamNotLatched ==
    /\ [][(/\ ~terminated /\ data' = data
           /\ op' \in {"read", "fill_buf"} /\ inner'.kind = "ok" /\ inner'.n = 0)
          => (result' = Ok(<<>>) /\ ~terminated')]_vars
    /\ [][(InnerGaveNothing /\ data' = data /\ op' \in {"read", "fill_buf"}) =>
             /\ inner'.kind # "none"
             /\ (inner'.kind = "ok" /\ (op' = "read" => inner'.n <= arg')) =>
                    result' = Ok(BeforeCtrlZ(SubSeq(data, pos + 1, pos + inner'.n)))]_vars

C17_Witness ==
    /\ op = "read"
    /\ arg >= 1
    /\ result = Ok(<<>>)
    /\ inner.kind = "ok"
    /\ inner.n = 0
    /\ ~terminated
    /\ pos >= 1
    /\ pos < Len(data)

\* C18: over a finite stream and an inner source that yields at least one byte while
\* bytes remain, the read loop gets to a read that returns 0 and the fill_buf /
\* consume loop to an empty view, and no later iteration of either loop returns
\* a byte.
C18_LoopsEnd ==
    /\ <>rd.done
    /\ <>br.done
    /\ [][rd.done => rd.out' = rd.out]_vars
    /\ [][br.done => br.out' = br.out]_vars

C18_Witness ==
    /\ rd.done
    /\ rd.extra = MaxExtra
    /\ br.done
    /\ br.extra = MaxExtra
    /\ Len(data) >= 3
    /\ Len(rd.out) < Len(data)
    /\ rd.pos < Len(data)
    /\ br.pos < Len(data)

TypeOK ==
    /\ pos <= cap
    /\ cap <= Len(data)
    /\ terminated \in BOOLEAN
    /\ rd.pos <= Len(data)
    /\ br.pos <= br.cap /\ br.cap <= Len(data)

====
